---- MODULE Spec2Model ----
(***************************************************************************)
(* The scan-score-allocate pipeline of src/app.py: ticker selection, the   *)
(* per-ticker analysis (SMA, RSI, momentum, score), the scan loop with its *)
(* progress bar, the sort by score and the budget allocation.              *)
(*                                                                         *)
(* Prices are positive integers and every quotient the code forms (means,  *)
(* rs, rsi, momentum, budget / num_stocks, progress) is kept as an exact   *)
(* fraction [n, d]; comparisons are made by cross-multiplication.  The     *)
(* rounding of IEEE doubles is not modelled.                               *)
(***************************************************************************)
EXTENDS Integers, Sequences, FiniteSets

VARIABLES
    pc,               \* position of the script run (or of the analysis probe)
    scan_mode,        \* sidebar radio, line 98
    budget,           \* sidebar number input, line 99
    num_stocks,       \* sidebar number input, line 100
    nse,              \* what get_all_nse_tickers() returns when called
    market,           \* what the price provider holds: symbol -> fetch outcome
    tickers,          \* line 112 / 114-117
    done,             \* number of completed loop iterations (i + 1 of line 123)
    analysed,         \* the symbols handed to analyze_stock so far, in order
    results,          \* line 120 / 125
    progress,         \* the value last given to the progress bar, a fraction
    notices,          \* what the run has shown: warning, errors, dashboard
    df,               \* line 136
    target_per_stock, \* line 138, a fraction
    affordable_df,    \* line 139
    portfolio,        \* lines 145-150
    total_invested,   \* line 153
    savings,          \* line 154
    error_shown,      \* the amount printed by line 142, in hundredths
    hist,             \* the closes under analysis (analysis probe)
    data              \* the last value analyze_stock returned: <<>> is None

vars == <<pc, scan_mode, budget, num_stocks, nse, market, tickers, done,
          analysed, results, progress, notices, df, target_per_stock,
          affordable_df, portfolio, total_invested, savings, error_shown,
          hist, data>>

----------------------------------------------------------------------------
(* Program constants *)

Nifty50Count == 50      \* length of the list of get_nifty50_tickers
ScanCap == 200          \* lines 115-117
MinHistory == 10        \* line 63
SmaWindow == 20         \* line 66
MinBudget == 1000       \* line 99, min_value
BudgetStep == 1000      \* line 99, step
MaxNumStocks == 20      \* line 100, max_value

(* Bounds of the model *)

MaxStocks == 3          \* num_stocks ranges over 1..MaxStocks
MaxClose == 4           \* price levels of the analysis probe's series
MaxLen == 21            \* longest series of the analysis probe
Overshoot == 150        \* the longest external list has ScanCap + Overshoot symbols

----------------------------------------------------------------------------
(* Exact fractions *)

Frac(a, b) == [n |-> a, d |-> b]
FLess(x, y) == x.n * y.d < y.n * x.d
FLeq(x, y) == x.n * y.d <= y.n * x.d
FEq(x, y) == x.n * y.d = y.n * x.d
FAdd(x, y) == Frac(x.n * y.d + y.n * x.d, x.d * y.d)
FSub(x, y) == Frac(x.n * y.d - y.n * x.d, x.d * y.d)
\* x / y for y > 0
FDiv(x, y) == Frac(x.n * y.d, x.d * y.n)
Whole(k) == Frac(k, 1)

RECURSIVE SumSeq(_)
SumSeq(s) == IF s = <<>> THEN 0 ELSE Head(s) + SumSeq(Tail(s))

\* pandas Series.mean() of a column of numbers
Mean(s) == Frac(SumSeq(s), Len(s))

\* pandas Series.tail(k)
TailN(s, k) == IF Len(s) <= k THEN s ELSE SubSeq(s, Len(s) - k + 1, Len(s))

----------------------------------------------------------------------------
(* analyze_stock, lines 59-93 *)

\* hist['Close'].diff(): the first entry is NaN, here the string "NaN"
Diff(close) == [k \in 1..Len(close) |->
                   IF k = 1 THEN "NaN" ELSE close[k] - close[k - 1]]

\* delta.where(delta > 0, 0): NaN > 0 is False, so NaN becomes 0
WhereGain(delta) == [k \in 1..Len(delta) |->
                        IF k > 1 /\ delta[k] > 0 THEN delta[k] ELSE 0]

\* -delta.where(delta < 0, 0)
WhereLoss(delta) == [k \in 1..Len(delta) |->
                        IF k > 1 /\ delta[k] < 0 THEN -delta[k] ELSE 0]

\* line 63
TooShortOffByOne(close) == Len(close) <= MinHistory
TooShort(close) == Len(close) < MinHistory

\* lines 72-73: rs = gain / loss if loss != 0 else 0; rsi = 100 - 100 / (1 + rs)
RsiTextbook(gain, loss) ==
    IF loss.n # 0
    THEN FSub(Whole(100), FDiv(Whole(100), FAdd(Whole(1), FDiv(gain, loss))))
    ELSE Whole(100)
Rsi(gain, loss) ==
    LET rs == IF loss.n # 0 THEN FDiv(gain, loss) ELSE Whole(0)
    IN  FSub(Whole(100), FDiv(Whole(100), FAdd(Whole(1), rs)))

\* lines 79-83
ScoreBigTrend(rsi, current, sma_20, momentum) ==
    LET s1 == IF FLess(rsi, Whole(35)) THEN 50 + 15
              ELSE IF FLess(Whole(70), rsi) THEN 50 - 15 ELSE 50
        s2 == IF FLess(sma_20, Whole(current)) THEN s1 + 25 ELSE s1
    IN  IF FLess(Whole(0), momentum) THEN s2 + 10 ELSE s2
Score(rsi, current, sma_20, momentum) ==
    LET s1 == IF FLess(rsi, Whole(35)) THEN 50 + 15
              ELSE IF FLess(Whole(70), rsi) THEN 50 - 15 ELSE 50
        s2 == IF FLess(sma_20, Whole(current)) THEN s1 + 15 ELSE s1
    IN  IF FLess(Whole(0), momentum) THEN s2 + 10 ELSE s2

\* A fetch outcome: the history call raised, or returned these closes
Raised == [kind |-> "raise", close |-> <<>>]
Closes(s) == [kind |-> "ok", close |-> s]

\* The returned dict as a one-element sequence, None as the empty sequence
analyze_stock(ticker, fetched) ==
    IF fetched.kind = "raise" THEN <<>>
    ELSE IF TooShort(fetched.close) THEN <<>>
    ELSE LET close == fetched.close
             current == close[Len(close)]
             sma_20 == Mean(TailN(close, SmaWindow))
             delta == Diff(close)
             gain == Mean(WhereGain(delta))
             loss == Mean(WhereLoss(delta))
             rsi == Rsi(gain, loss)
             momentum == Frac(current - close[1], close[1])
         IN  << [Ticker |-> ticker,
                 Price |-> current,
                 Score |-> Score(rsi, current, sma_20, momentum),
                 RSI |-> rsi,
                 Trend |-> IF FLess(sma_20, Whole(current))
                           THEN "Bullish" ELSE "Bearish"] >>

----------------------------------------------------------------------------
(* The environment: series, markets, ticker lists *)

Run(v, k) == [x \in 1..k |-> v]
ThreeRun(a, b, c, i, j, k) == Run(a, i) \o Run(b, j) \o Run(c, k)

\* Every series of at most MaxLen closes made of three level runs
SeriesSpace ==
    { ThreeRun(q[1], q[2], q[3], q[4], q[5], q[6]) :
        q \in { r \in (1..MaxClose) \X (1..MaxClose) \X (1..MaxClose)
                       \X (0..MaxLen) \X (0..MaxLen) \X (0..MaxLen) :
                  r[4] + r[5] + r[6] <= MaxLen } }

\* What the provider may hold for a symbol of the scanned market
MarketChoices ==
    { Raised,
      Closes(ThreeRun(90, 95, 100, 3, 3, 3)),
      Closes(ThreeRun(60, 80, 100, 3, 3, 4)),
      Closes(ThreeRun(400, 350, 333, 8, 8, 6)),
      Closes(ThreeRun(500, 500, 500, 4, 4, 4)),
      Closes(ThreeRun(400, 1300, 1000, 3, 3, 4)),
      Closes(ThreeRun(1500, 1800, 2000, 3, 3, 4)) }

EdgeChoices == { Raised, Closes(ThreeRun(60, 80, 100, 3, 3, 4)) }

\* Symbols are numbered; symbols outside the market's domain have no data
HotSymbols == {1, 2, 3}
EdgeSymbols == {1, ScanCap, ScanCap + 1}

History(ticker) ==
    IF ticker \in DOMAIN market THEN market[ticker] ELSE Raised

Symbols(n) == [k \in 1..n |-> k]

\* lines 30-42
get_nifty50_tickers == Symbols(Nifty50Count)

ShortSizes == {0, 3}
LongSizes == {ScanCap - 1, ScanCap, ScanCap + 1, ScanCap + Overshoot}

Budgets == {MinBudget, MinBudget + BudgetStep}

----------------------------------------------------------------------------
(* Ticker selection, lines 111-117 *)

\* line 115
NeedsCapOffByOne(ts) == Len(ts) >= ScanCap
NeedsCap(ts) == Len(ts) > ScanCap

\* line 117: tickers[:200]
FirstN(ts, k) == SubSeq(ts, 1, IF Len(ts) < k THEN Len(ts) ELSE k)

(* The scan loop, lines 123-126 *)

\* line 126: (i + 1) / len(tickers), i the zero-based index of the ticker
ProgressValueOffByOne(i, total) == Frac(i, total)
ProgressValue(i, total) == Frac(i + 1, total)

(* Sorting, line 136 *)

\* ascending=False: a row may precede another when its score is not lower
ScoreOrderAscending(a, b) == a.Score <= b.Score
ScoreOrder(a, b) == a.Score >= b.Score

Permutations(n) == { p \in [1..n -> 1..n] : \A x, y \in 1..n : x # y => p[x] # p[y] }

\* df.sort_values(by="Score", ascending=False) with the default
\* kind="quicksort", which pandas documents as not stable (numpy's introsort
\* or its SIMD sort, by build and CPU): rows of equal score may come out in
\* any order, so the call has a set of possible results.
sort_values(rows) ==
    { [k \in 1..Len(rows) |-> rows[p[k]]] :
        p \in { q \in Permutations(Len(rows)) :
                  \A x, y \in 1..Len(rows) :
                      x < y => ScoreOrder(rows[q[x]], rows[q[y]]) } }

\* line 132: st.stop() ends the script run
AfterNoDataFallsThrough == "allocate"
AfterNoData == "stopped"

(* Allocation, lines 138-154 *)

\* line 138: budget / num_stocks, true division
PerStockCapFloorDiv(b, k) == Whole(b \div k)
PerStockCap(b, k) == Frac(b, k)

\* line 139: df['Price'] <= target_per_stock
AffordableStrict(price, cap) == FLess(Whole(price), cap)
Affordable(price, cap) == FLeq(Whole(price), cap)

\* line 145: head(num_stocks)
HeadNOneMore(rows, k) == FirstN(rows, k + 1)
HeadN(rows, k) == FirstN(rows, k)

\* line 146: (target_per_stock // Price).astype(int), floor of the quotient
QtyRounded(cap, price) == (2 * cap.n + cap.d * price) \div (2 * cap.d * price)
Qty(cap, price) == cap.n \div (cap.d * price)

\* lines 146-147: the row with its Qty and Total Cost columns
Line(r, cap) ==
    [Ticker |-> r.Ticker, Price |-> r.Price, Score |-> r.Score, RSI |-> r.RSI,
     Trend |-> r.Trend, Qty |-> Qty(cap, r.Price),
     TotalCost |-> Qty(cap, r.Price) * r.Price]

RECURSIVE SumCost(_)
SumCost(rows) == IF rows = <<>> THEN 0 ELSE Head(rows).TotalCost + SumCost(Tail(rows))

\* line 142: f"{target_per_stock:.2f}", the amount in hundredths, rounded to
\* the nearest hundredth, an exact half to the even one
Format2f(x) ==
    LET q == (100 * x.n) \div x.d
        r == (100 * x.n) % x.d
    IN  IF 2 * r < x.d THEN q
        ELSE IF 2 * r > x.d THEN q + 1
        ELSE IF q % 2 = 0 THEN q ELSE q + 1

----------------------------------------------------------------------------
(* The script run *)

Unset ==
    /\ tickers = <<>>
    /\ done = 0
    /\ analysed = <<>>
    /\ results = <<>>
    /\ progress = Frac(0, 1)
    /\ notices = {}
    /\ df = <<>>
    /\ target_per_stock = Frac(0, 1)
    /\ affordable_df = <<>>
    /\ portfolio = <<>>
    /\ total_invested = 0
    /\ savings = 0
    /\ error_shown = 0
    /\ data = <<>>

\* The state when "Analyze Market" is pressed (line 108)
Init ==
    /\ pc = "start"
    /\ budget \in Budgets
    /\ num_stocks \in 1..(IF MaxStocks < MaxNumStocks THEN MaxStocks ELSE MaxNumStocks)
    /\ \/ /\ scan_mode = "Nifty 50 (Fast)"
          /\ nse = <<>>
          /\ market \in [HotSymbols -> MarketChoices]
       \/ /\ scan_mode = "Full Market (Slow)"
          /\ nse \in { Symbols(n) : n \in ShortSizes }
          /\ market \in [HotSymbols -> MarketChoices]
       \/ /\ scan_mode = "Full Market (Slow)"
          /\ nse \in { Symbols(n) : n \in LongSizes }
          /\ market \in [EdgeSymbols -> EdgeChoices]
    /\ hist = <<>>
    /\ Unset

\* lines 111-121
GetList ==
    /\ pc = "start"
    /\ IF scan_mode = "Nifty 50 (Fast)"
       THEN /\ tickers' = get_nifty50_tickers
            /\ notices' = notices
       ELSE IF NeedsCap(nse)
            THEN /\ tickers' = FirstN(nse, ScanCap)
                 /\ notices' = notices \cup {"warning_first_200"}
            ELSE /\ tickers' = nse
                 /\ notices' = notices
    /\ results' = <<>>
    /\ progress' = Frac(0, 1)
    /\ pc' = "scan"
    /\ UNCHANGED <<scan_mode, budget, num_stocks, nse, market, done, analysed,
                   df, target_per_stock, affordable_df, portfolio,
                   total_invested, savings, error_shown, hist, data>>

\* lines 123-126, one iteration
ScanStep ==
    /\ pc = "scan"
    /\ done < Len(tickers)
    /\ \E ticker \in {tickers[done + 1]} :
          \E d \in {analyze_stock(ticker, History(ticker))} :
             /\ data' = d
             /\ results' = IF d # <<>> THEN results \o d ELSE results
             /\ analysed' = Append(analysed, ticker)
    /\ progress' = ProgressValue(done, Len(tickers))
    /\ done' = done + 1
    /\ UNCHANGED <<pc, scan_mode, budget, num_stocks, nse, market, tickers,
                   notices, df, target_per_stock, affordable_df, portfolio,
                   total_invested, savings, error_shown, hist>>

\* lines 128-136
EndScan ==
    /\ pc = "scan"
    /\ done = Len(tickers)
    /\ \/ /\ results = <<>>
          /\ notices' = notices \cup {"error_no_data"}
          /\ pc' = AfterNoData
          /\ df' = df
       \/ /\ results # <<>>
          /\ df' \in sort_values(results)
          /\ pc' = "allocate"
          /\ notices' = notices
    /\ UNCHANGED <<scan_mode, budget, num_stocks, nse, market, tickers, done,
                   analysed, results, progress, target_per_stock,
                   affordable_df, portfolio, total_invested, savings,
                   error_shown, hist, data>>

\* lines 138-170
Allocate ==
    /\ pc = "allocate"
    /\ LET cap == PerStockCap(budget, num_stocks)
           Fits(r) == Affordable(r.Price, cap)
           aff == SelectSeq(df, Fits)
           top == HeadN(aff, num_stocks)
           lines == [k \in 1..Len(top) |-> Line(top[k], cap)]
           HasQty(l) == l.Qty > 0
           kept == SelectSeq(lines, HasQty)
       IN  /\ target_per_stock' = cap
           /\ affordable_df' = aff
           /\ \/ /\ aff = <<>>
                 /\ notices' = notices \cup {"error_no_stocks"}
                 /\ error_shown' = Format2f(cap)
                 /\ UNCHANGED <<portfolio, total_invested, savings>>
              \/ /\ aff # <<>>
                 /\ portfolio' = kept
                 /\ total_invested' = SumCost(kept)
                 /\ savings' = budget - SumCost(kept)
                 /\ notices' = notices \cup {"dashboard"}
                 /\ UNCHANGED error_shown
    /\ pc' = "done"
    /\ UNCHANGED <<scan_mode, budget, num_stocks, nse, market, tickers, done,
                   analysed, results, progress, df, hist, data>>

Next == GetList \/ ScanStep \/ EndScan \/ Allocate

Spec == Init /\ [][Next]_vars

----------------------------------------------------------------------------
(* The analysis probe: analyze_stock applied to one series *)

InitProbe ==
    /\ pc = "probe"
    /\ hist \in SeriesSpace
    /\ scan_mode = "Nifty 50 (Fast)"
    /\ budget = MinBudget
    /\ num_stocks = 1
    /\ nse = <<>>
    /\ market = [s \in {} |-> Raised]
    /\ Unset

Probe ==
    /\ pc = "probe"
    /\ data' = analyze_stock(1, Closes(hist))
    /\ pc' = "probed"
    /\ UNCHANGED <<scan_mode, budget, num_stocks, nse, market, tickers, done,
                   analysed, results, progress, notices, df, target_per_stock,
                   affordable_df, portfolio, total_invested, savings,
                   error_shown, hist>>

NextProbe == Probe

SpecProbe == InitProbe /\ [][NextProbe]_vars

----------------------------------------------------------------------------
(* Helpers of the properties *)

Min(a, b) == IF a < b THEN a ELSE b

ScanOver == pc \in {"stopped", "allocate", "done"}

RunOver == pc \in {"stopped", "done"}

\* Some step can be taken: ScanStep's updates are total, so its guard
\* (line 123, a ticker is left) is what enables it
CanStep ==
    \/ ENABLED GetList
    \/ (pc = "scan" /\ done < Len(tickers))
    \/ ENABLED EndScan
    \/ ENABLED Allocate

\* The number of steps the run can still take is at most this
StepsLeft ==
    IF pc = "start" THEN Nifty50Count + ScanCap + 3
    ELSE IF pc = "scan" THEN (Len(tickers) - done) + 2
    ELSE IF pc = "allocate" THEN 1
    ELSE 0

\* A symbol whose fetch succeeds with at least MinHistory closes
HasData(t) == History(t).kind = "ok" /\ Len(History(t).close) >= MinHistory

TickersOf(rows) == [k \in 1..Len(rows) |-> rows[k].Ticker]

\* The place of the row of symbol t in rows (symbols are scanned once each)
PlaceOf(rows, t) == CHOOSE k \in 1..Len(rows) : rows[k].Ticker = t

NoLosingDay(close) == \A k \in 2..Len(close) : close[k] >= close[k - 1]

TerminalNotices == {"error_no_data", "error_no_stocks", "dashboard"}

AllocationUntouched ==
    /\ target_per_stock = Frac(0, 1)
    /\ affordable_df = <<>>
    /\ portfolio = <<>>
    /\ total_invested = 0
    /\ savings = 0
    /\ error_shown = 0
    /\ notices \cap {"error_no_stocks", "dashboard"} = {}

----------------------------------------------------------------------------
C3_ScoreAtMost75 ==
    (pc = "probed" /\ data # <<>>) => data[1].Score \in 10..75

(* C3 amended: every score analyze_stock returns lies in 10..90.          *)
C3_ScoreRange ==
    (pc = "probed" /\ data # <<>>) => data[1].Score \in 10..90

C3_Witness ==
    /\ pc = "probed"
    /\ data # <<>>
    /\ NoLosingDay(hist)
    /\ data[1].Score = 90

(* C4 as stated, its last part: when the scan is over the progress value  *)
(* last reported is 1.                                                    *)
C4_ReachesOneEveryScan ==
    ScanOver => FEq(progress, Whole(1))

C4_ProgressState ==
    /\ 0 <= progress.n
    /\ progress.n <= progress.d
    /\ done >= 1 => FEq(progress, Frac(done, Len(tickers)))
    /\ FEq(progress, Whole(1)) => (done = Len(tickers) /\ done >= 1)
    /\ (ScanOver /\ Len(tickers) > 0) => FEq(progress, Whole(1))

(* C4 amended: the progress value reported after the k-th ticker is       *)
(* k / total whether or not the analysis succeeded; the reported values   *)
(* stay in [0,1], never decrease and equal 1 only after the last ticker;  *)
(* every scan over a non-empty ticker list goes on until it has reported  *)
(* 1, and a scan over an empty list reports nothing after the initial 0.  *)
C4_Progress ==
    /\ []C4_ProgressState
    /\ [][progress.n * progress'.d <= progress'.n * progress.d]_vars
    /\ [](pc = "scan" => CanStep)
    /\ [][pc = "scan" => StepsLeft' < StepsLeft]_vars
    /\ [](Len(tickers) = 0 => progress = Frac(0, 1))

C4_Witness ==
    /\ pc = "scan"
    /\ done = Len(tickers)
    /\ done = 3
    /\ Len(results) = 1
    /\ FEq(progress, Whole(1))

(* C5: the collected results hold exactly one entry for each analysed     *)
(* ticker whose fetch succeeded with at least 10 closes, in input order,  *)
(* and none for any other; each entry is that ticker's analysis; a short  *)
(* series or a failure stops no later ticker from being analysed.         *)
C5_CollectedExactly ==
    /\ TickersOf(results) = SelectSeq(analysed, HasData)
    /\ \A k \in 1..Len(results) :
          <<results[k]>> = analyze_stock(results[k].Ticker,
                                          History(results[k].Ticker))
    /\ analysed = SubSeq(tickers, 1, done)
    /\ ScanOver => analysed = tickers

C5_Witness ==
    /\ pc = "allocate"
    /\ 2 \in DOMAIN market
    /\ market[1].kind = "raise"
    /\ market[2].kind = "ok"
    /\ Len(market[2].close) = MinHistory - 1
    /\ TickersOf(results) = <<3>>
    /\ Len(market[3].close) = MinHistory

C6_EmptyScanState ==
    /\ (ScanOver /\ results = <<>>) =>
          (pc = "stopped" /\ "error_no_data" \in notices /\ AllocationUntouched)
    /\ "error_no_data" \in notices =>
          (pc = "stopped" /\ results = <<>> /\ AllocationUntouched)

(* C6: if the ticker list is empty or every analysis is absent the run    *)
(* ends with the "No data found" error, and from then on no allocation    *)
(* step runs: cap, filter, quantities, messages and portfolio stay as     *)
(* they were.                                                             *)
C6_EmptyScanStops ==
    /\ []C6_EmptyScanState
    /\ [][("error_no_data" \in notices) =>
             (/\ pc' = pc
              /\ notices' = notices
              /\ UNCHANGED <<df, target_per_stock, affordable_df, portfolio,
                             total_invested, savings, error_shown>>)]_vars

C6_Witness ==
    /\ pc = "stopped"
    /\ "error_no_data" \in notices
    /\ Len(tickers) = Nifty50Count
    /\ done = Nifty50Count

C7_OutcomeState ==
    /\ RunOver => Cardinality(notices \cap TerminalNotices) = 1
    /\ ~RunOver => notices \cap TerminalNotices = {}
    /\ "error_no_stocks" \in notices <=>
          (/\ pc = "done"
           /\ results # <<>>
           /\ \A k \in 1..Len(results) : results[k].Price * num_stocks > budget)
    /\ "error_no_stocks" \in notices =>
          /\ target_per_stock.n * num_stocks = budget * target_per_stock.d
          /\ 2 * (error_shown * num_stocks - 100 * budget) <= num_stocks
          /\ 2 * (100 * budget - error_shown * num_stocks) <= num_stocks

(* C7: every run ends, and ends with exactly one of the "No data found"   *)
(* error, the "No stocks found" error and the dashboard; the "No stocks"  *)
(* error is shown exactly when the results are not empty and none has     *)
(* price <= budget / num_stocks, and it is built from that cap (printed   *)
(* to the nearest hundredth).                                             *)
C7_Outcomes ==
    /\ []C7_OutcomeState
    /\ [](RunOver \/ CanStep)
    /\ [][StepsLeft' < StepsLeft]_vars

C7_Witness ==
    /\ pc = "done"
    /\ budget = 1000
    /\ num_stocks = 1
    /\ Len(results) = 1
    /\ results[1].Price = 2000
    /\ notices = {"error_no_stocks"}
    /\ error_shown = 100000

(* C8: in full-market mode the tickers analysed are the first             *)
(* min(200, L) symbols of the external list, in its order, and the        *)
(* warning is shown exactly when L > 200; in curated mode all 50 symbols  *)
(* are scanned and no warning is shown.                                   *)
C8_CapOfScan ==
    /\ Len(analysed) <= Len(tickers)
    /\ \A k \in 1..Len(analysed) : analysed[k] = tickers[k]
    /\ (scan_mode = "Full Market (Slow)" /\ pc # "start") =>
          /\ tickers = [k \in 1..Min(ScanCap, Len(nse)) |-> nse[k]]
          /\ "warning_first_200" \in notices <=> Len(nse) > ScanCap
    /\ (scan_mode = "Full Market (Slow)" /\ ScanOver) =>
          analysed = [k \in 1..Min(ScanCap, Len(nse)) |-> nse[k]]
    /\ scan_mode = "Nifty 50 (Fast)" =>
          /\ "warning_first_200" \notin notices
          /\ pc # "start" => tickers = get_nifty50_tickers
          /\ ScanOver => analysed = get_nifty50_tickers

C8_Witness ==
    /\ pc = "done"
    /\ Len(nse) = ScanCap + Overshoot
    /\ Len(analysed) = ScanCap
    /\ "warning_first_200" \in notices
    /\ TickersOf(results) = <<1, ScanCap>>

(* C9: for a series of at least 10 closes with no close below the one     *)
(* before it, analyze_stock returns rsi = 0 exactly, not 100, and the     *)
(* rsi < 35 rule has added 15 to the score.                               *)
C9_NoLossRsiZero ==
    (pc = "probed" /\ Len(hist) >= MinHistory /\ NoLosingDay(hist)) =>
        /\ data # <<>>
        /\ data[1].RSI.n = 0
        /\ data[1].RSI.d > 0
        /\ ~FEq(data[1].RSI, Whole(100))
        /\ data[1].Score \in {50 + 15, 50 + 15 + 10, 50 + 15 + 15, 50 + 15 + 15 + 10}

C9_Witness ==
    /\ pc = "probed"
    /\ Len(hist) = MaxLen
    /\ NoLosingDay(hist)
    /\ hist[1] < hist[Len(hist)]
    /\ data # <<>>
    /\ data[1].RSI.n = 0
    /\ data[1].Trend = "Bearish"

(* C10: every affordable entry gets qty = floor(cap / price) >= 1, the    *)
(* qty > 0 filter drops nothing, and the portfolio is the first           *)
(* min(num_stocks, number of affordable results) entries of the           *)
(* affordable sequence, which is in descending order of score.            *)
C10_PortfolioIsHead ==
    "dashboard" \in notices =>
        /\ \A k \in 1..Len(affordable_df) :
              /\ affordable_df[k].Price * num_stocks <= budget
              /\ budget \div (num_stocks * affordable_df[k].Price) >= 1
        /\ \A x, y \in 1..Len(affordable_df) :
              x < y => affordable_df[x].Score >= affordable_df[y].Score
        /\ Len(portfolio) = Min(num_stocks, Len(affordable_df))
        /\ \A k \in 1..Len(portfolio) :
              /\ portfolio[k].Ticker = affordable_df[k].Ticker
              /\ portfolio[k].Price = affordable_df[k].Price
              /\ portfolio[k].Score = affordable_df[k].Score
              /\ portfolio[k].Qty = budget \div (num_stocks * portfolio[k].Price)
              /\ portfolio[k].Qty >= 1

C10_Witness ==
    /\ "dashboard" \in notices
    /\ num_stocks = 2
    /\ Len(affordable_df) = 3
    /\ Len(portfolio) = 2
    /\ portfolio[1].Score > portfolio[2].Score
    /\ portfolio[2].Qty = 1

====
